---------------------------- MODULE Spec2Model ----------------------------
(***************************************************************************)
(* Model of the robotic-arm controller (hardware/robotic_arm/src/main.cpp) *)
(* and of the flight controller's command parser.                          *)
(*                                                                         *)
(* Numbers.  Every C float of the arm controller (positions in cm, angles  *)
(* in degrees) is a fixed-point integer counting tenths: 17.5 cm is 175,   *)
(* 90 degrees is 900.  Arithmetic on them is exact; the rounding of the    *)
(* 32-bit float unit is not modelled.  The solver's sqrt/acos/atan2 are     *)
(* computed by integer search and return the nearest tenth of a degree.    *)
(*                                                                         *)
(* Text.  A command line is a string; the Arduino String methods used by   *)
(* the parsers (indexOf, substring, charAt, trim, toUpperCase,             *)
(* toLowerCase, toFloat) are modelled character by character.              *)
(***************************************************************************)
EXTENDS Integers, Sequences, FiniteSets, TLC

Scale == 10

\* ------------------------------------------------------------ constants
SHOULDER_OFFSET == 35
ELBOW_OFFSET == -15
BASE_OFFSET == 45
WRIST_HOME == 85
GRIPPER_OPEN == 90
GRIPPER_CALM == 40
GRIPPER_TIGHT == 0

\* arm dimensions, tenths of a cm (7.2, 7.5, 17.5)
L0 == 72
L1 == 75
L2 == 175

SERVO_MIN == 0
SERVO_MAX == 180

\* workspace limits, tenths of a cm (5.0, 40.0, 5.0, 30.0)
Y_MIN == 50
Y_MAX == 400
Z_MIN == 50
Z_MAX == 300

moveSteps == 30

\* the margin 0.5 of maxReach / minReach, tenths of a cm
ReachMargin == 5
\* the default magnitude 5.0 of move:<direction>, tenths of a cm
DefaultMove == 50
\* home pose: 90.0 / 90.0 degrees, 17.5 / 15.0 cm
SHOULDER_HOME == 900
ELBOW_HOME == 900
BASE_HOME == 900
HOME_Y == 175
HOME_Z == 150

\* ------------------------------------------------------- Arduino macros
constrain(x, lo, hi) == IF x < lo THEN lo ELSE IF x > hi THEN hi ELSE x

abs(x) == IF x > 0 THEN x ELSE -x

\* (int)x of a float x = n / d (d > 0): truncation toward zero
Trunc(n, d) == IF n >= 0 THEN n \div d ELSE -((-n) \div d)

\* n / d (d > 0) rounded to the nearest integer
RDiv(n, d) == (2 * n + d) \div (2 * d)

\* ------------------------------------------------------- Arduino String
Ch(s, i) == SubSeq(s, i, i)

Lowers == "abcdefghijklmnopqrstuvwxyz"
Uppers == "ABCDEFGHIJKLMNOPQRSTUVWXYZ"
Digits == "0123456789"

RECURSIVE PosIn(_, _, _)
\* 1-based position of character c in s at or after i, 0 when absent
PosIn(s, c, i) ==
    IF i > Len(s) THEN 0
    ELSE IF Ch(s, i) = c THEN i
    ELSE PosIn(s, c, i + 1)

\* String::indexOf(ch): 0-based index of the first ch, -1 when absent
indexOf(s, c) == PosIn(s, c, 1) - 1

\* String::substring(left, right): characters left .. right-1 (0-based)
substring(s, left, right) ==
    LET l == IF left > right THEN right ELSE left
        r0 == IF left > right THEN left ELSE right
        r == IF r0 > Len(s) THEN Len(s) ELSE r0
    IN  IF l >= Len(s) THEN "" ELSE SubSeq(s, l + 1, r)

\* String::substring(left): to the end of the string
substringFrom(s, left) == substring(s, left, Len(s))

\* String::charAt(0) of a non-empty string
charAt0(s) == Ch(s, 1)

RECURSIVE MapChars(_, _, _)
MapChars(s, from, to) ==
    IF Len(s) = 0 THEN ""
    ELSE LET c == Ch(s, 1)
             p == PosIn(from, c, 1)
         IN  (IF p = 0 THEN c ELSE Ch(to, p)) \o MapChars(Tail(s), from, to)

toUpperCase(s) == MapChars(s, Lowers, Uppers)
toLowerCase(s) == MapChars(s, Uppers, Lowers)

IsSpace(c) == c \in {" ", "\t", "\r", "\n"}

RECURSIVE TrimLeft(_)
TrimLeft(s) == IF Len(s) > 0 /\ IsSpace(Ch(s, 1)) THEN TrimLeft(Tail(s)) ELSE s

RECURSIVE TrimRight(_)
TrimRight(s) ==
    IF Len(s) > 0 /\ IsSpace(Ch(s, Len(s)))
    THEN TrimRight(SubSeq(s, 1, Len(s) - 1)) ELSE s

\* String::trim()
trim(s) == TrimRight(TrimLeft(s))

IsDigit(c) == PosIn(Digits, c, 1) > 0
DigitVal(c) == PosIn(Digits, c, 1) - 1

RECURSIVE ScanDigits(_, _)
\* position after the run of digits that starts at i
ScanDigits(s, i) ==
    IF i <= Len(s) /\ IsDigit(Ch(s, i)) THEN ScanDigits(s, i + 1) ELSE i

RECURSIVE DigitsValue(_, _, _)
\* value of the digits s[i .. j-1]
DigitsValue(s, i, j) ==
    IF i >= j THEN 0
    ELSE DigitsValue(s, i, j - 1) * 10 + DigitVal(Ch(s, j - 1))

\* the number whose sign (if any) ends before i1 and whose integer digits are
\* t[i1 .. i2-1], in tenths; 0 when there is no digit
ParseNumber(t, neg, i1, i2) ==
    LET hasDot == i2 <= Len(t) /\ Ch(t, i2) = "."
        hasFrac == hasDot /\ i2 + 1 <= Len(t) /\ IsDigit(Ch(t, i2 + 1))
        frac == IF hasFrac THEN DigitVal(Ch(t, i2 + 1)) ELSE 0
        mag == DigitsValue(t, i1, i2) * Scale + frac
    IN  IF ~(i2 > i1 \/ hasFrac) THEN 0 ELSE IF neg THEN -mag ELSE mag

ParseSigned(t, neg, i1) == ParseNumber(t, neg, i1, ScanDigits(t, i1))

ParseFloat(t) ==
    ParseSigned(t, Len(t) > 0 /\ Ch(t, 1) = "-",
                IF Len(t) > 0 /\ Ch(t, 1) \in {"-", "+"} THEN 2 ELSE 1)

\* String::toFloat() (atof): optional blanks, optional sign, digits, optional
\* fraction; the longest such prefix is converted and 0 is returned when there
\* is none.  The result is in tenths; fraction digits after the first are
\* dropped.  Exponents, "inf" and "nan" are not modelled.
toFloat(s) == ParseFloat(TrimLeft(s))

\* --------------------------------------------------------- trigonometry
\* Angles are tenths of a degree, cosines and sines are scaled by TrigScale.
TrigScale == 10000

\* tenths of a degree to radians scaled by TrigScale
Rad(d) == RDiv(d * 174533, 10000)

\* cos and sin on [0, 45] degrees by their Taylor polynomials
CosSmall(d) ==
    LET x == Rad(d)
        x2 == RDiv(x * x, TrigScale)
        x4 == RDiv(x2 * x2, TrigScale)
        x6 == RDiv(x4 * x2, TrigScale)
    IN  TrigScale - RDiv(x2, 2) + RDiv(x4, 24) - RDiv(x6, 720)

SinSmall(d) ==
    LET x == Rad(d)
        x2 == RDiv(x * x, TrigScale)
        x3 == RDiv(x * x2, TrigScale)
        x5 == RDiv(x3 * x2, TrigScale)
        x7 == RDiv(x5 * x2, TrigScale)
    IN  x - RDiv(x3, 6) + RDiv(x5, 120) - RDiv(x7, 5040)

\* cos on [0, 180] degrees
CosD(d) ==
    LET q == IF d > 900 THEN 1800 - d ELSE d
        c == IF q <= 450 THEN CosSmall(q) ELSE SinSmall(900 - q)
    IN  IF d > 900 THEN -c ELSE c

\* sin on [-90, 180] degrees
SinD(d) ==
    LET a == abs(d)
        q == IF a > 900 THEN 1800 - a ELSE a
        v == IF q <= 450 THEN SinSmall(q) ELSE CosSmall(900 - q)
    IN  IF d < 0 THEN -v ELSE v

RECURSIVE AcosSearch(_, _, _)
\* least angle in lo..hi whose cosine is <= c (cos decreases on [0, 180])
AcosSearch(c, lo, hi) ==
    IF lo >= hi THEN lo
    ELSE LET mid == (lo + hi) \div 2
         IN  IF CosD(mid) <= c THEN AcosSearch(c, lo, mid)
             ELSE AcosSearch(c, mid + 1, hi)

\* of a and a - 1, the angle whose cosine is nearer to c
AcosNearest(c, a) ==
    IF a > 0 /\ abs(CosD(a - 1) - c) <= abs(CosD(a) - c) THEN a - 1 ELSE a

\* acos(c) in tenths of a degree, c scaled by TrigScale in [-1, 1]
Acos(c) == AcosNearest(c, AcosSearch(c, 0, 1800))

\* y*sin(t) - z*cos(t): negative below the direction of (y, z), positive above
Cross(z, y, t) == y * SinD(t) - z * CosD(abs(t))

RECURSIVE AtanSearch(_, _, _, _)
\* least angle t in lo..hi with y*sin(t) - z*cos(t) >= 0
AtanSearch(z, y, lo, hi) ==
    IF lo >= hi THEN lo
    ELSE LET mid == (lo + hi) \div 2
         IN  IF Cross(z, y, mid) >= 0
             THEN AtanSearch(z, y, lo, mid)
             ELSE AtanSearch(z, y, mid + 1, hi)

AtanNearest(z, y, a) ==
    IF a > -900 /\ abs(Cross(z, y, a - 1)) <= abs(Cross(z, y, a)) THEN a - 1 ELSE a

\* atan2(z, y) for y > 0, in tenths of a degree
Atan2(z, y) == AtanNearest(z, y, AtanSearch(z, y, -900, 900))

RECURSIVE SqrtSearch(_, _, _)
\* greatest r in lo..hi with r*r <= n
SqrtSearch(n, lo, hi) ==
    IF lo >= hi THEN lo
    ELSE LET mid == (lo + hi + 1) \div 2
         IN  IF mid * mid <= n THEN SqrtSearch(n, mid, hi)
             ELSE SqrtSearch(n, lo, mid - 1)

ISqrt(n) == SqrtSearch(n, 0, 46340)

\* ---------------------------------------------------- inverse kinematics
\* The result of calculateIK is a record: ok is the returned bool, shoulder and
\* elbow the values left in the out-parameters (meaningful when ok), err the
\* message printed on failure.

\* the servo-limit check that ends calculateIK
IKLimits(shoulder, elbow) ==
    IF shoulder < SERVO_MIN * Scale \/ shoulder > SERVO_MAX * Scale
       \/ elbow < SERVO_MIN * Scale \/ elbow > SERVO_MAX * Scale
    THEN [ok |-> FALSE, shoulder |-> shoulder, elbow |-> elbow,
          err |-> "servo limits"]
    ELSE [ok |-> TRUE, shoulder |-> shoulder, elbow |-> elbow, err |-> ""]

\* cosElbow, clamped: (L1^2 + L2^2 - dist^2) / (2 L1 L2)
CosElbow(dist2) ==
    constrain(RDiv((L1 * L1 + L2 * L2 - dist2) * TrigScale, 2 * L1 * L2),
              -TrigScale, TrigScale)

\* cosBeta, clamped: (L1^2 + dist^2 - L2^2) / (2 L1 dist); dist is taken in
\* thousandths of a cm
CosBeta(dist2) ==
    constrain(RDiv((L1 * L1 + dist2 - L2 * L2) * TrigScale,
                   RDiv(2 * L1 * ISqrt(dist2 * 10000), 100)),
              -TrigScale, TrigScale)

\* variant of IKSolve: the elbow is returned as the interior angle of the
\* triangle, not as 180 minus it
IKSolve_InteriorElbow(y, zAdj, dist2, maxReach, minReach) ==
    IF dist2 > maxReach * maxReach \/ dist2 < minReach * minReach
    THEN [ok |-> FALSE, shoulder |-> 0, elbow |-> 0, err |-> "out of reach"]
    ELSE IKLimits(Atan2(zAdj, y) + Acos(CosBeta(dist2)), Acos(CosElbow(dist2)))

\* calculateIK from the reach check on.  dist is compared with maxReach and
\* minReach through the squares, which decides both comparisons exactly.
IKSolve(y, zAdj, dist2, maxReach, minReach) ==
    IF dist2 > maxReach * maxReach \/ dist2 < minReach * minReach
    THEN [ok |-> FALSE, shoulder |-> 0, elbow |-> 0, err |-> "out of reach"]
    ELSE IKLimits(Atan2(zAdj, y) + Acos(CosBeta(dist2)),
                  180 * Scale - Acos(CosElbow(dist2)))

\* variant of calculateIK: the margin is taken twice from the full extension,
\* which puts maxReach at 24.0 cm
calculateIK_MaxReach24(y, z) ==
    IKSolve(y, z - L0, y * y + (z - L0) * (z - L0),
            L1 + L2 - 2 * ReachMargin, abs(L1 - L2) + ReachMargin)

\* variant of calculateIK: the reach limits are taken without the 0.5 cm margin
calculateIK_NoMargin(y, z) ==
    IKSolve(y, z - L0, y * y + (z - L0) * (z - L0), L1 + L2, abs(L1 - L2))

\* bool calculateIK(y, z, &shoulder, &elbow)
calculateIK(y, z) ==
    IKSolve(y, z - L0, y * y + (z - L0) * (z - L0),
            L1 + L2 - ReachMargin, abs(L1 - L2) + ReachMargin)

\* ------------------------------------------------------------- state
VARIABLES
    currentY, currentZ,          \* end effector position
    shoulderAngle, elbowAngle,   \* logical (IK) angles
    baseAngle, wristAngle, gripperAngle,
    pc,       \* "loop": in loop(), no command running; "run": inside a handler;
              \* "done": the handler has returned
    chan,     \* channel the running command was read from
    cmd,      \* the trimmed line being processed
    pre,      \* the joint state when the line was dispatched
    todo,     \* calls the handler has still to run, each one interpolation loop
    i,        \* loop counter of the call at the head of todo
    start,    \* startAngle / startShoulder, startElbow of that call
    writes,   \* Servo::write calls of this command, in order: <<joint, angle>>
    log,      \* Serial output of this command
    ack,      \* robot.println output of this command
    pendAck,  \* the robot.println that follows the calls of todo
    ncmd,     \* lines dispatched since boot
    sy, sz,   \* a point handed to calculateIK on its own
    sres,     \* what calculateIK returned for it, NoResult before the call
    ESC_MAX_US,       \* flight controller: current allowed maximum pulse, us
    ESC_current_pct,  \* flight controller: last commanded percentage
    esc,      \* pulse last passed to writeMicroseconds of ESC_FL, FR, RR, RL
    fcmd,     \* the command parse_BT_commands handled last
    fout      \* what that call printed with print_both_serial

joint == <<currentY, currentZ, shoulderAngle, elbowAngle,
           baseAngle, wristAngle, gripperAngle>>

vars == <<currentY, currentZ, shoulderAngle, elbowAngle, baseAngle, wristAngle,
          gripperAngle, pc, chan, cmd, pre, todo, i, start, writes, log, ack,
          pendAck, ncmd, sy, sz, sres,
          ESC_MAX_US, ESC_current_pct, esc, fcmd, fout>>

\* the state of the robotic arm firmware and that of the flight controller
arm == <<currentY, currentZ, shoulderAngle, elbowAngle, baseAngle, wristAngle,
         gripperAngle, pc, chan, cmd, pre, todo, i, start, writes, log, ack,
         pendAck, ncmd>>
flight == <<ESC_MAX_US, ESC_current_pct, esc, fcmd, fout>>

\* calculateIK called on its own
solver == <<sy, sz, sres>>
NoResult == [ok |-> FALSE, shoulder |-> 0, elbow |-> 0, err |-> "not called"]

\* the joint state as a record
JointState ==
    [shoulder |-> shoulderAngle, elbow |-> elbowAngle, base |-> baseAngle,
     wrist |-> wristAngle, gripper |-> gripperAngle,
     y |-> currentY, z |-> currentZ]

\* the home pose
HomeState ==
    [shoulder |-> SHOULDER_HOME, elbow |-> ELBOW_HOME, base |-> BASE_HOME,
     wrist |-> WRIST_HOME * Scale, gripper |-> GRIPPER_CALM * Scale,
     y |-> HOME_Y, z |-> HOME_Z]

\* one Serial.println: the fixed text and the numbers printed with it
Msg(text, val) == [msg |-> text, val |-> val]

\* printPosition(): the pose, each number with one decimal
printPosition(st) ==
    Msg("--- Current State ---",
        <<st.y, st.z, st.shoulder, st.elbow, st.base, st.wrist, st.gripper>>)

\* offset added to a logical angle in the Servo::write of a joint, degrees
Offset(j) ==
    CASE j = "shoulder" -> SHOULDER_OFFSET
      [] j = "elbow" -> ELBOW_OFFSET
      [] j = "base" -> BASE_OFFSET
      [] OTHER -> 0

\* a call that runs one interpolation loop: what it prints before the loop,
\* the joints it writes, their targets, the position it commits (arm moves),
\* what it prints after the loop and whether it ends with printPosition()
Call(fn, begin, joints, target, pos, end, report) ==
    [fn |-> fn, begin |-> begin, joints |-> joints, target |-> target,
     pos |-> pos, end |-> end, report |-> report]

\* what a handler does: the Serial output before its first loop (all of its
\* output when it runs none) and the calls that follow
Res(out, calls) == [log |-> out, todo |-> calls]

\* output `out`, then what r does
Then(out, r) == Res(out \o r.log, r.todo)

\* variant of setBase: the angle is used as given, without constrain()
setBase_NoClamp(angle) ==
    Res(<<>>,
        <<Call("setBase",
               <<Msg("Base rotating to: ", <<angle, angle + BASE_OFFSET * Scale>>)>>,
               <<"base">>, <<angle>>, <<>>, <<>>, FALSE)>>)

\* ------------------------------------------------------------- setters
setBase(angle) ==
    LET a == constrain(angle, SERVO_MIN * Scale, (SERVO_MAX - BASE_OFFSET) * Scale)
    IN  Res(<<>>,
            <<Call("setBase",
                   <<Msg("Base rotating to: ", <<a, a + BASE_OFFSET * Scale>>)>>,
                   <<"base">>, <<a>>, <<>>, <<>>, FALSE)>>)

\* variant of setWrist: the angle is stored as it was given
setWrist_NoClamp(angle) ==
    Res(<<>>,
        <<Call("setWrist", <<Msg("Wrist rotating to: ", <<angle>>)>>,
               <<"wrist">>, <<angle>>, <<>>, <<>>, FALSE)>>)

\* variant of setWrist: the loop drives the base servo and the base angle is
\* stored
setWrist_DrivesBase(angle) ==
    LET a == constrain(angle, SERVO_MIN * Scale, SERVO_MAX * Scale)
    IN  Res(<<>>,
            <<Call("setWrist", <<Msg("Wrist rotating to: ", <<a>>)>>,
                   <<"base">>, <<a>>, <<>>, <<>>, FALSE)>>)

setWrist(angle) ==
    LET a == constrain(angle, SERVO_MIN * Scale, SERVO_MAX * Scale)
    IN  Res(<<>>,
            <<Call("setWrist", <<Msg("Wrist rotating to: ", <<a>>)>>,
                   <<"wrist">>, <<a>>, <<>>, <<>>, FALSE)>>)

\* variant of setGripper: the angle is clamped to the servo range, not to the
\* gripper's own range
setGripper_ServoRange(angle) ==
    LET a == constrain(angle, SERVO_MIN * Scale, SERVO_MAX * Scale)
    IN  Res(<<>>,
            <<Call("setGripper", <<Msg("Gripper set to: ", <<a>>)>>,
                   <<"gripper">>, <<a>>, <<>>, <<>>, FALSE)>>)

setGripper(angle) ==
    LET a == constrain(angle, GRIPPER_TIGHT * Scale, GRIPPER_OPEN * Scale)
    IN  Res(<<>>,
            <<Call("setGripper", <<Msg("Gripper set to: ", <<a>>)>>,
                   <<"gripper">>, <<a>>, <<>>, <<>>, FALSE)>>)

openGripper ==
    Then(<<Msg("Opening gripper...", <<>>)>>, setGripper(GRIPPER_OPEN * Scale))

closeGripper(tight) ==
    IF tight
    THEN Then(<<Msg("Closing gripper (tight)...", <<>>)>>,
              setGripper(GRIPPER_TIGHT * Scale))
    ELSE Then(<<Msg("Closing gripper (calm)...", <<>>)>>,
              setGripper(GRIPPER_CALM * Scale))

\* variant of MoveWith: the result of calculateIK is ignored and the move runs
MoveWith_Unchecked(ty, tz, ik) ==
    Res(<<Msg("Target: ", <<ty, tz>>),
          Msg("Angles: ", <<ik.shoulder, ik.elbow>>)>>,
        <<Call("moveToPosition", <<>>, <<"shoulder", "elbow">>,
               <<ik.shoulder, ik.elbow>>, <<ty, tz>>,
               <<Msg("Movement complete", <<>>)>>, TRUE)>>)

\* ------------------------------------------------------------ movement
\* moveToPosition after the solver has answered ik for the clamped target
MoveWith(ty, tz, ik) ==
    IF ~ik.ok
    THEN Res(<<Msg(IF ik.err = "out of reach"
                   THEN "Error: Position out of reach."
                   ELSE "Error: Calculated angles exceed servo limits", <<>>),
               Msg("Movement cancelled - position unreachable", <<>>)>>,
             <<>>)
    ELSE Res(<<Msg("Target: ", <<ty, tz>>),
               Msg("Angles: ", <<ik.shoulder, ik.elbow>>)>>,
             <<Call("moveToPosition", <<>>, <<"shoulder", "elbow">>,
                    <<ik.shoulder, ik.elbow>>, <<ty, tz>>,
                    <<Msg("Movement complete", <<>>)>>, TRUE)>>)

MoveClamped(ty, tz) == MoveWith(ty, tz, calculateIK(ty, tz))

\* variant of moveToPosition: the target goes to the solver as given
moveToPosition_NoClamp(targetY, targetZ) == MoveClamped(targetY, targetZ)

\* void moveToPosition(float targetY, float targetZ)
moveToPosition(targetY, targetZ) ==
    MoveClamped(constrain(targetY, Y_MIN, Y_MAX), constrain(targetZ, Z_MIN, Z_MAX))

\* void moveRelative(float deltaY, float deltaZ), st the joint state it reads
moveRelative(st, deltaY, deltaZ) ==
    Then(<<Msg("Moving: ", <<deltaY, deltaZ>>)>>,
         moveToPosition(st.y + deltaY, st.z + deltaZ))

\* variant of goToHome: the arm, base and wrist go home, the gripper is left
\* as it is
goToHome_KeepGripper ==
    Res(<<Msg("Moving to home position...", <<>>)>>,
        setBase(90 * Scale).todo
        \o setWrist(WRIST_HOME * Scale).todo
        \o <<Call("goToHome",
                  <<Msg("IK: Shoulder=90, Elbow=90 -> Servo: 125, 75", <<>>)>>,
                  <<"shoulder", "elbow">>, <<SHOULDER_HOME, ELBOW_HOME>>,
                  <<HOME_Y, HOME_Z>>,
                  <<Msg("Home position reached", <<>>)>>, TRUE)>>)

\* goToHome(): base, wrist and gripper first, then shoulder and elbow together
goToHome ==
    Res(<<Msg("Moving to home position...", <<>>)>>,
        setBase(90 * Scale).todo
        \o setWrist(WRIST_HOME * Scale).todo
        \o setGripper(GRIPPER_CALM * Scale).todo
        \o <<Call("goToHome",
                  <<Msg("IK: Shoulder=90, Elbow=90 -> Servo: 125, 75", <<>>)>>,
                  <<"shoulder", "elbow">>, <<SHOULDER_HOME, ELBOW_HOME>>,
                  <<HOME_Y, HOME_Z>>,
                  <<Msg("Home position reached", <<>>)>>, TRUE)>>)

\* ------------------------------------------------- command processors
\* A processor's result: what the handler does, and the line it sends with
\* robot.println once the calls have returned ("" when it sends none).
Out(r, reply) == [log |-> r.log, todo |-> r.todo, ack |-> reply]

Say(text) == Res(<<Msg(text, <<>>)>>, <<>>)

Status(st) == Res(<<printPosition(st)>>, <<>>)

\* the switch of processSerialCommand
SerialSwitch(st, input, c, value, commaIdx) ==
    CASE c = "F" -> moveRelative(st, value, 0)
      [] c = "B" -> moveRelative(st, -value, 0)
      [] c = "U" -> moveRelative(st, 0, value)
      [] c = "D" -> moveRelative(st, 0, -value)
      [] c = "G" ->
           IF commaIdx > 0
           THEN moveToPosition(toFloat(substring(input, 1, commaIdx)),
                               toFloat(substringFrom(input, commaIdx + 1)))
           ELSE Say("Error: Use format G<y>,<z>")
      [] c = "H" -> goToHome
      [] c = "P" -> Status(st)
      [] c = "R" -> setBase(value)
      [] c = "W" -> setWrist(value)
      [] c = "C" -> setGripper(value)
      [] c = "O" -> openGripper
      [] c = "X" -> closeGripper(FALSE)
      [] c = "T" -> closeGripper(TRUE)
      [] OTHER -> Say("Unknown command")

\* variant of SerialParse: the operand is parsed from the whole line, the
\* command letter included
SerialParse_WholeLine(st, input) ==
    SerialSwitch(st, input, charAt0(input),
                 IF Len(input) > 1 THEN toFloat(input) ELSE 0,
                 indexOf(input, ","))

SerialParse(st, input) ==
    SerialSwitch(st, input, charAt0(input),
                 IF Len(input) > 1 THEN toFloat(substringFrom(input, 1)) ELSE 0,
                 indexOf(input, ","))

\* processSerialCommand(input): the single-letter grammar; st is the joint
\* state (the globals) the handler reads
processSerialCommand(st, line) == Out(SerialParse(st, toUpperCase(line)), "")

\* the move: branch of processBluetoothCommand, direction and value parsed
MoveDirection(st, direction, value) ==
    CASE direction = "forward" ->
            Out(moveRelative(st, value, 0), "OK:move:forward")
      [] direction = "backward" ->
            Out(moveRelative(st, -value, 0), "OK:move:backward")
      [] direction = "up" ->
            Out(moveRelative(st, 0, value), "OK:move:up")
      [] direction = "down" ->
            Out(moveRelative(st, 0, -value), "OK:move:down")
      [] OTHER ->
            Out(Say("Error: Unknown direction"), "ERROR:UNKNOWN_DIRECTION")

MoveFields(st, remainder, secondColon) ==
    MoveDirection(st,
                  IF secondColon >= 0 THEN substring(remainder, 0, secondColon)
                  ELSE remainder,
                  IF secondColon >= 0
                  THEN toFloat(substringFrom(remainder, secondColon + 1))
                  ELSE DefaultMove)

\* the move: branch of processBluetoothCommand
BluetoothMove(st, remainder) ==
    MoveFields(st, remainder, indexOf(remainder, ":"))

\* variant of PositionFields: a comma is only required to be present
PositionFields_AnyComma(remainder, commaIdx) ==
    IF commaIdx >= 0
    THEN Out(moveToPosition(toFloat(substring(remainder, 0, commaIdx)),
                            toFloat(substringFrom(remainder, commaIdx + 1))),
             "OK:position")
    ELSE Out(Say("Error: Use format position:y,z"), "ERROR:INVALID_POSITION")

PositionFields(remainder, commaIdx) ==
    IF commaIdx > 0
    THEN Out(moveToPosition(toFloat(substring(remainder, 0, commaIdx)),
                            toFloat(substringFrom(remainder, commaIdx + 1))),
             "OK:position")
    ELSE Out(Say("Error: Use format position:y,z"), "ERROR:INVALID_POSITION")

\* the position: branch of processBluetoothCommand
BluetoothPosition(remainder) == PositionFields(remainder, indexOf(remainder, ","))

\* the gripper: branch of processBluetoothCommand
BluetoothGripper(remainder) ==
    CASE remainder = "open" -> Out(openGripper, "OK:gripper:open")
      [] remainder = "close" -> Out(closeGripper(FALSE), "OK:gripper:close")
      [] remainder = "tight" -> Out(closeGripper(TRUE), "OK:gripper:tight")
      [] OTHER -> Out(setGripper(toFloat(remainder)), "OK:gripper")

\* processBluetoothCommand once the line has been split at its first colon
BluetoothFamily(st, command, remainder) ==
    CASE command = "move" -> BluetoothMove(st, remainder)
      [] command = "position" -> BluetoothPosition(remainder)
      [] command = "base" -> Out(setBase(toFloat(remainder)), "OK:base")
      [] command = "wrist" -> Out(setWrist(toFloat(remainder)), "OK:wrist")
      [] command = "gripper" -> BluetoothGripper(remainder)
      [] OTHER -> Out(Say("Error: Unknown command"), "ERROR:UNKNOWN_COMMAND")

BluetoothParse(st, input, firstColon) ==
    IF input = "home" THEN Out(goToHome, "OK:home")
    ELSE IF input = "status" THEN Out(Status(st), "OK:status")
    ELSE IF firstColon < 0
    THEN Out(Say("Error: Invalid command format"), "ERROR:INVALID_FORMAT")
    ELSE BluetoothFamily(st, substring(input, 0, firstColon),
                         substringFrom(input, firstColon + 1))

BluetoothLower(st, input) == BluetoothParse(st, input, indexOf(input, ":"))

\* what `out` printed first and then r
After(out, r) == [r EXCEPT !.log = out \o @]

\* processBluetoothCommand(input): the colon grammar; st is the joint state
\* (the globals) the handler reads.  The echo of the line is not part of Msg.
processBluetoothCommand(st, line) ==
    After(<<Msg("Processing: ", <<>>)>>, BluetoothLower(st, toLowerCase(line)))

\* String::equalsIgnoreCase
equalsIgnoreCase(s, t) == toLowerCase(s) = toLowerCase(t)


\* ---------------------------------------------------------- the inputs
RECURSIVE Dec(_)
\* the decimal digits of a natural number
Dec(n) == IF n < 10 THEN Ch(Digits, n + 1) ELSE Dec(n \div 10) \o Ch(Digits, (n % 10) + 1)

\* a number of tenths written in decimal: 175 is "17.5", -100 is "-10"
Str(t) ==
    (IF t < 0 THEN "-" ELSE "")
    \o Dec(abs(t) \div Scale)
    \o (IF abs(t) % Scale = 0 THEN "" ELSE "." \o Dec(abs(t) % Scale))

\* magnitudes of relative moves (0, 5 and 10 cm)
Mags == {0, 50, 100}
\* angles requested of the base, the wrist and the gripper (-10 .. 200 degrees)
AngleOps == {-100, 450, 910, 1500, 2000}
\* absolute targets: (10, 10), (100, 100), (15, 20), (17.5, 15), (20, 2)
Targets == {<<100, 100>>, <<1000, 1000>>, <<150, 200>>, <<175, 150>>, <<200, 20>>}
Dirs == {"forward", "backward", "up", "down"}
Letter(d) ==
    CASE d = "forward" -> "F" [] d = "backward" -> "B"
      [] d = "up" -> "U" [] d = "down" -> "D"
Families == {"base", "wrist", "gripper"}
FamilyLetter(k) == CASE k = "base" -> "R" [] k = "wrist" -> "W" [] k = "gripper" -> "C"

\* well-formed lines of the single-letter grammar
CompactLines ==
    {Letter(d) \o Str(m) : d \in Dirs, m \in Mags}
    \cup {"G" \o Str(t[1]) \o "," \o Str(t[2]) : t \in Targets}
    \cup {FamilyLetter(k) \o Str(a) : k \in Families, a \in AngleOps}
    \cup {"H", "P", "O", "X", "T"}

\* well-formed lines of the colon grammar
FieldLines ==
    {"move:" \o d \o ":" \o Str(m) : d \in Dirs, m \in Mags}
    \cup {"position:" \o Str(t[1]) \o "," \o Str(t[2]) : t \in Targets}
    \cup {k \o ":" \o Str(a) : k \in Families, a \in AngleOps}
    \cup {"gripper:open", "gripper:close", "gripper:tight", "home", "status"}

\* lines with a non-numeric operand or an unknown gripper sub-command
NonNumericCompact == {"Rxyz", "Wxyz", "Cxyz", "Fabc", "Dabc", "Ga,b"}
NonNumericField ==
    {"base:abc", "wrist:abc", "move:forward:abc", "move:up:abc",
     "position:a,b", "gripper:foo"}

\* lines that are structurally malformed or not recognised
MalformedCompact == {"Z5", "Q", "G10", "G"}
MalformedField ==
    {"fly:5", "move:sideways:5", "move:", "hello", "F10", "position:10",
     "position:", "position:,5"}

\* other lines: no magnitude, mixed case, surrounding blanks, empty
OtherCompact == {"F", "f5", " H \r", "", "  "}
OtherField == {"move:up", "HOME", "Move:Down:5", "status\r", ""}

\* what may arrive on the local (Serial) channel and on the wireless one
SerialInputs ==
    CompactLines \cup NonNumericCompact \cup MalformedCompact \cup OtherCompact
    \cup {"home", "status", "gripper:open", "move:forward:5", "fly:5"}
BluetoothInputs ==
    FieldLines \cup NonNumericField \cup MalformedField \cup OtherField

\* lines dispatched after boot in one run
MaxCmds == 2

\* ------------------------------------------------------------- actions
\* setup(): the globals hold their initialisers and goToHome() is called
ArmInit ==
    /\ currentY = HOME_Y /\ currentZ = HOME_Z
    /\ shoulderAngle = 90 * Scale /\ elbowAngle = 90 * Scale
    /\ baseAngle = 90 * Scale /\ wristAngle = 85 * Scale
    /\ gripperAngle = 40 * Scale
    /\ pc = "run" /\ chan = "setup" /\ cmd = ""
    /\ pre = HomeState
    /\ todo = goToHome.todo /\ log = goToHome.log
    /\ i = 0 /\ start = <<>> /\ writes = <<>>
    /\ ack = <<>> /\ pendAck = ""
    /\ ncmd = 0

\* flight controller: ESC timing limits (config.h) and the globals of
\* config.cpp after setup(), which ends with ESC_MIN_ALLOWED written to the
\* four ESCs
ESC_MIN_ALLOWED == 1000
ESC_MAX_ALLOWED == 2000
\* int ESC_MIN_US = ESC_MIN_ALLOWED; it is assigned nowhere else
ESC_MIN_US == ESC_MIN_ALLOWED

FlightBoot ==
    /\ ESC_MAX_US = Trunc(ESC_MAX_ALLOWED * 2, 10)   \* ESC_MAX_ALLOWED * 0.2
    /\ ESC_current_pct = 0
    /\ esc = <<ESC_MIN_ALLOWED, ESC_MIN_ALLOWED, ESC_MIN_ALLOWED, ESC_MIN_ALLOWED>>
    /\ fcmd = "" /\ fout = <<>>

\* both programs after construction; no point is handed to the solver on its
\* own
Init == ArmInit /\ sy = 0 /\ sz = 0 /\ sres = NoResult /\ FlightBoot

\* a handler is entered with the line `input` read from channel ch; r is what
\* the processor does with it.  A handler that runs no loop returns at once.
Start(ch, input, r) ==
    /\ cmd' = input /\ chan' = ch /\ pre' = JointState
    /\ todo' = r.todo /\ log' = r.log /\ pendAck' = r.ack
    /\ i' = 0 /\ start' = <<>> /\ writes' = <<>>
    /\ ncmd' = ncmd + 1
    /\ IF r.todo = <<>>
       THEN pc' = "done" /\ ack' = (IF r.ack = "" THEN <<>> ELSE <<r.ack>>)
       ELSE pc' = "run" /\ ack' = <<>>
    /\ UNCHANGED joint

\* variant of SerialLine: a line is read whether or not a handler is running
SerialLine_Unguarded(raw) ==
    /\ ncmd < MaxCmds
    /\ LET input == trim(raw)
       IN  IF Len(input) = 0 THEN UNCHANGED vars
           ELSE IF indexOf(input, ":") >= 0 \/ equalsIgnoreCase(input, "home")
                   \/ equalsIgnoreCase(input, "status")
           THEN Start("serial", input, processBluetoothCommand(JointState, input))
           ELSE Start("serial", input, processSerialCommand(JointState, input))

\* loop(), if (Serial.available()): a line of the local channel
SerialLine(raw) ==
    /\ pc = "loop" /\ ncmd < MaxCmds
    /\ LET input == trim(raw)
       IN  IF Len(input) = 0 THEN UNCHANGED vars
           ELSE IF indexOf(input, ":") >= 0 \/ equalsIgnoreCase(input, "home")
                   \/ equalsIgnoreCase(input, "status")
           THEN Start("serial", input, processBluetoothCommand(JointState, input))
           ELSE Start("serial", input, processSerialCommand(JointState, input))

\* loop(), if (robot.available()): a line of the wireless channel
BluetoothLine(raw) ==
    /\ pc = "loop" /\ ncmd < MaxCmds
    /\ LET input == trim(raw)
       IN  IF Len(input) > 0
           THEN Start("bluetooth", input,
                      After(<<Msg("BT Received: ", <<>>)>>,
                            processBluetoothCommand(JointState, input)))
           ELSE UNCHANGED vars

\* the angle written in iteration k of an interpolation loop:
\* (int)(startAngle + (angle - startAngle) * ((float)k / moveSteps) + offset)
\* variant of ServoAngle: the offset is added to the start angle as well as to
\* the interpolated angle
ServoAngle_OffsetTwice(startAngle, angle, k, offset) ==
    Trunc((startAngle + offset * Scale) * moveSteps + (angle - startAngle) * k
          + offset * Scale * moveSteps, Scale * moveSteps)

ServoAngle(startAngle, angle, k, offset) ==
    Trunc(startAngle * moveSteps + (angle - startAngle) * k
          + offset * Scale * moveSteps, Scale * moveSteps)

\* variant of CommitState: a two-joint call stores the angles but not the
\* position
CommitState_NoPosition(c, st) ==
    IF Len(c.joints) = 1
    THEN [st EXCEPT ![c.joints[1]] = c.target[1]]
    ELSE [st EXCEPT !.shoulder = c.target[1], !.elbow = c.target[2]]

CommitState(c, st) ==
    IF Len(c.joints) = 1
    THEN [st EXCEPT ![c.joints[1]] = c.target[1]]
    ELSE [st EXCEPT !.shoulder = c.target[1], !.elbow = c.target[2],
                    !.y = c.pos[1], !.z = c.pos[2]]

\* startAngle (startShoulder, startElbow) of call c entered in joint state st
StartOf(c, st) == [n \in 1..Len(c.joints) |-> st[c.joints[n]]]

\* the Servo::write calls of iteration k of the loop of call c, in order
IterWrites(c, sa, k) ==
    [n \in 1..Len(c.joints) |->
        <<c.joints[n], ServoAngle(sa[n], c.target[n], k, Offset(c.joints[n]))>>]

\* variant of Step: the target is stored in the iteration that reaches it, not
\* after the loop
Step_StoresInLoop ==
    /\ pc = "run" /\ i < moveSteps
    /\ LET c == Head(todo)
           sa == IF i = 0 THEN StartOf(c, JointState) ELSE start
           ns == IF i + 1 = moveSteps THEN CommitState(c, JointState)
                 ELSE JointState
       IN  /\ start' = sa
           /\ writes' = writes \o IterWrites(c, sa, i + 1)
           /\ log' = IF i = 0 THEN log \o c.begin ELSE log
           /\ shoulderAngle' = ns.shoulder /\ elbowAngle' = ns.elbow
           /\ baseAngle' = ns.base /\ wristAngle' = ns.wrist
           /\ gripperAngle' = ns.gripper
           /\ currentY' = ns.y /\ currentZ' = ns.z
    /\ i' = i + 1
    /\ UNCHANGED <<pc, chan, cmd, pre, todo, ack, pendAck, ncmd>>

\* one iteration of the loop of the call at the head of todo; the first one
\* follows the call's entry, where the start angles are read
Step ==
    /\ pc = "run" /\ i < moveSteps
    /\ LET c == Head(todo)
           sa == IF i = 0 THEN StartOf(c, JointState) ELSE start
       IN  /\ start' = sa
           /\ writes' = writes \o IterWrites(c, sa, i + 1)
           /\ log' = IF i = 0 THEN log \o c.begin ELSE log
    /\ i' = i + 1
    /\ UNCHANGED <<joint, pc, chan, cmd, pre, todo, ack, pendAck, ncmd>>

\* the loop has ended: the call stores its targets and returns; after the last
\* call the handler sends its reply and returns
Commit ==
    /\ pc = "run" /\ i = moveSteps
    /\ LET c == Head(todo)
           ns == CommitState(c, JointState)
       IN  /\ shoulderAngle' = ns.shoulder /\ elbowAngle' = ns.elbow
           /\ baseAngle' = ns.base /\ wristAngle' = ns.wrist
           /\ gripperAngle' = ns.gripper
           /\ currentY' = ns.y /\ currentZ' = ns.z
           /\ log' = log \o c.end
                     \o (IF c.report THEN <<printPosition(ns)>> ELSE <<>>)
    /\ todo' = Tail(todo) /\ i' = 0 /\ start' = <<>>
    /\ IF Tail(todo) = <<>>
       THEN pc' = "done" /\ ack' = (IF pendAck = "" THEN <<>> ELSE <<pendAck>>)
       ELSE pc' = "run" /\ ack' = ack
    /\ UNCHANGED <<chan, cmd, pre, writes, pendAck, ncmd>>

\* the handler has returned to loop(), which returns and is called again
Return ==
    /\ pc = "done"
    /\ pc' = "loop" /\ chan' = "" /\ cmd' = "" /\ pre' = JointState
    /\ writes' = <<>> /\ log' = <<>> /\ ack' = <<>> /\ pendAck' = ""
    /\ UNCHANGED <<joint, todo, i, start, ncmd>>

Next ==
    \/ \E raw \in SerialInputs :
          SerialLine(raw) /\ UNCHANGED solver /\ UNCHANGED flight
    \/ \E raw \in BluetoothInputs :
          BluetoothLine(raw) /\ UNCHANGED solver /\ UNCHANGED flight
    \/ Step /\ UNCHANGED solver /\ UNCHANGED flight
    \/ Commit /\ UNCHANGED solver /\ UNCHANGED flight
    \/ Return /\ UNCHANGED solver /\ UNCHANGED flight

Spec == Init /\ [][Next]_vars

\* ------------------------------------------------- the solver on its own
\* points handed to calculateIK: a grid of GridStep tenths of a cm over
\* [0, MaxGridY] x [0, MaxGridZ] grid steps, which covers the workspace
\* [5, 40] x [5, 30] cm and points on every side of it
GridStep == 7
MaxGridY == 60
MaxGridZ == 45
GridY == {k * GridStep : k \in 0..MaxGridY}
GridZ == {k * GridStep : k \in 0..MaxGridZ}

SolveInit ==
    /\ ArmInit
    /\ sy \in GridY /\ sz \in GridZ /\ sres = NoResult
    /\ FlightBoot

\* bool calculateIK(y, z, shoulder, elbow) is called; it reads and assigns no
\* global
Solve ==
    /\ sres = NoResult
    /\ sres' = calculateIK(sy, sz)
    /\ UNCHANGED <<arm, flight, sy, sz>>

SolveNext == Solve

SolveSpec == SolveInit /\ [][SolveNext]_vars

\* ------------------------------------------------- the flight controller
\* parse_BT_commands skips leading blanks and tabs only
RECURSIVE SkipBlanks(_)
SkipBlanks(s) ==
    IF Len(s) > 0 /\ Ch(s, 1) \in {" ", "\t"} THEN SkipBlanks(Tail(s)) ELSE s

\* strtol(nptr, &endp, 10) on the text t that follows the white space of nptr,
\* whose digits are t[i1 .. i2-1]: the value and what endp points at.  With no
\* digit nothing is converted: the value is 0 and endp is nptr.
StrtolAt(nptr, t, neg, i1, i2) ==
    IF i2 = i1 THEN [val |-> 0, rest |-> nptr]
    ELSE [val |-> IF neg THEN -DigitsValue(t, i1, i2) ELSE DigitsValue(t, i1, i2),
          rest |-> SubSeq(t, i2, Len(t))]

StrtolSigned(nptr, t, neg, i1) == StrtolAt(nptr, t, neg, i1, ScanDigits(t, i1))

StrtolText(nptr, t) ==
    StrtolSigned(nptr, t, Len(t) > 0 /\ Ch(t, 1) = "-",
                 IF Len(t) > 0 /\ Ch(t, 1) \in {"-", "+"} THEN 2 ELSE 1)

strtol(nptr) == StrtolText(nptr, TrimLeft(nptr))

\* (int)(range * (pct / 100.0)): the product of an int and a rounded floating
\* quotient, truncated toward zero.  pct / 100.0 is exact only for a multiple
\* of 25; otherwise a product whose exact value is a whole number other than 0
\* may be rounded to just inside it and truncate to the number next to it, and
\* whether it does depends on the width of double (32 bits on AVR).  The
\* outcomes are the exact quotient and, in that case, its neighbour toward 0.
PctOfRange(range, pct) ==
    IF (range * pct) % 100 = 0 /\ range * pct # 0 /\ pct % 25 # 0
    THEN {Trunc(range * pct, 100),
          Trunc(range * pct, 100) - (IF range * pct > 0 THEN 1 ELSE -1)}
    ELSE {Trunc(range * pct, 100)}

\* set_throttle_all(us) with ESC_MAX_US = max: the pulse it passes to
\* writeMicroseconds of each of the four ESCs
set_throttle_all(us, max) ==
    IF (IF us < ESC_MIN_US THEN ESC_MIN_US ELSE us) > max THEN max
    ELSE IF us < ESC_MIN_US THEN ESC_MIN_US ELSE us

\* what one call of parse_BT_commands may do: the new ESC_MAX_US and
\* ESC_current_pct, the pulses passed to the ESCs by set_throttle_all (none
\* when it is not called) and the message printed after the echo
Outcome(max, pct, pulses, text, val) ==
    [max |-> max, pct |-> pct, pulses |-> pulses, out |-> Msg(text, val)]

\* us = ESC_MIN_US + (int)((ESC_MAX_US - ESC_MIN_US) * (ESC_current_pct / 100.0));
\* set_throttle_all(us); and the message that reports value v
Throttled(max, pct, text, v) ==
    {Outcome(max, pct, <<set_throttle_all(ESC_MIN_US + d, max)>>, text, <<v>>) :
        d \in PctOfRange(max - ESC_MIN_US, pct)}

\* "-100": ESC_MAX_US -= 100, not below ESC_MIN_ALLOWED
LimitDecrease(max, pct) ==
    Throttled(IF max - 100 < ESC_MIN_ALLOWED THEN ESC_MIN_ALLOWED ELSE max - 100,
              pct, "MAX throttle decreased -> ",
              IF max - 100 < ESC_MIN_ALLOWED THEN ESC_MIN_ALLOWED ELSE max - 100)

\* "+100": ESC_MAX_US += 100, not above ESC_MAX_ALLOWED
LimitIncrease(max, pct) ==
    Throttled(IF max + 100 > ESC_MAX_ALLOWED THEN ESC_MAX_ALLOWED ELSE max + 100,
              pct, "MAX throttle increased -> ",
              IF max + 100 > ESC_MAX_ALLOWED THEN ESC_MAX_ALLOWED ELSE max + 100)

\* "e-stop"
EStop(max) ==
    {Outcome(max, 0, <<set_throttle_all(ESC_MIN_US, max)>>,
             "EMERGENCY STOP - All motors set to 0%", <<>>)}

Unknown(max, pct) == {Outcome(max, pct, <<>>, "ERR: unknown command", <<>>)}

\* "t:N" with r the result of strtol on what follows "t:"
ThrottleCommand(max, pct, r) ==
    IF r.rest = "" /\ r.val >= 0 /\ r.val <= 100
    THEN Throttled(max, r.val, "Throttle -> ", r.val)
    ELSE Unknown(max, pct)

\* void parse_BT_commands(char *command), after the leading blanks and the echo
ParseCommand(command, max, pct) ==
    IF command = "-100" THEN LimitDecrease(max, pct)
    ELSE IF command = "+100" THEN LimitIncrease(max, pct)
    ELSE IF command = "e-stop" THEN EStop(max)
    ELSE IF Len(command) >= 2 /\ SubSeq(command, 1, 2) = "t:"
    THEN ThrottleCommand(max, pct, strtol(SubSeq(command, 3, Len(command))))
    ELSE Unknown(max, pct)

\* lines the main loop hands to parse_BT_commands: none is empty, none holds
\* a CR or LF, none is longer than the 47 characters of lineBuf
FlightLines ==
    {"-100", "+100", "e-stop", "t:0", "t:25", "t:53", "t:100", "t:101", "t:-1",
     "t:5x", "t:", "t: 7", "t:+8", " e-stop", "\tt:25", "   ", "E-STOP",
     "throttle:50", "limit_increase", "limit_decrease", "stop"}

\* loop() has read a complete line and calls parse_BT_commands(lineBuf)
parse_BT_commands(line) ==
    /\ SkipBlanks(line) # ""
    /\ \E o \in ParseCommand(SkipBlanks(line), ESC_MAX_US, ESC_current_pct) :
          /\ ESC_MAX_US' = o.max
          /\ ESC_current_pct' = o.pct
          /\ esc' = IF o.pulses = <<>> THEN esc
                    ELSE <<o.pulses[1], o.pulses[1], o.pulses[1], o.pulses[1]>>
          /\ fout' = <<Msg("BT Command: " \o SkipBlanks(line), <<>>), o.out>>
    /\ fcmd' = SkipBlanks(line)
    /\ UNCHANGED <<arm, solver>>

FlightNext == \E line \in FlightLines : parse_BT_commands(line)

FlightSpec == Init /\ [][FlightNext]_vars

\* --------------------------------------------- a handler run as a whole
RECURSIVE LoopWrites(_, _, _)
\* the writes of iterations k .. moveSteps of the loop of call c
LoopWrites(c, sa, k) ==
    IF k > moveSteps THEN <<>>
    ELSE IterWrites(c, sa, k) \o LoopWrites(c, sa, k + 1)

RECURSIVE RunWrites(_, _)
\* all the writes of the calls `calls`, run one after the other from state st
RunWrites(calls, st) ==
    IF calls = <<>> THEN <<>>
    ELSE LoopWrites(Head(calls), StartOf(Head(calls), st), 1)
         \o RunWrites(Tail(calls), CommitState(Head(calls), st))

RECURSIVE RunState(_, _)
\* the joint state after the calls `calls`, run from state st
RunState(calls, st) ==
    IF calls = <<>> THEN st
    ELSE RunState(Tail(calls), CommitState(Head(calls), st))

RECURSIVE RunLog(_, _)
\* the Serial output of the calls `calls`, run from state st
RunLog(calls, st) ==
    IF calls = <<>> THEN <<>>
    ELSE LET c == Head(calls)
             ns == CommitState(c, st)
         IN  c.begin \o c.end
             \o (IF c.report THEN <<printPosition(ns)>> ELSE <<>>)
             \o RunLog(Tail(calls), ns)

\* ------------------------------------------------------------ the claims
Done == pc = "done"

\* the running line is `line`, handled by processSerialCommand
Compact(line) == chan = "serial" /\ cmd = line /\ indexOf(line, ":") < 0

\* the running line is `line`, handled by processBluetoothCommand
Field(line) ==
    /\ cmd = line
    /\ \/ chan = "bluetooth"
       \/ indexOf(line, ":") >= 0
       \/ line \in {"home", "status"}

GLine(t) == "G" \o Str(t[1]) \o "," \o Str(t[2])
PositionLine(t) == "position:" \o Str(t[1]) \o "," \o Str(t[2])
MoveLine(d, m) == "move:" \o d \o ":" \o Str(m)
DeltaY(d, m) == CASE d = "forward" -> m [] d = "backward" -> -m [] OTHER -> 0
DeltaZ(d, m) == CASE d = "up" -> m [] d = "down" -> -m [] OTHER -> 0

\* the solver rejects the workspace-clamped target (y, z)
Rejected(y, z) ==
    ~calculateIK(constrain(y, Y_MIN, Y_MAX), constrain(z, Z_MIN, Z_MAX)).ok

\* the command issued no actuator write and left the joint state as it was
Aborted == writes = <<>> /\ JointState = pre

Logged(text) == \E n \in 1..Len(log) : log[n].msg = text

\* C1: a position command, in either grammar, whose workspace-clamped target
\* the solver rejects is aborted: no actuator write, every joint variable
\* unchanged; G100,100 is rejected as out of reach from every state.
C1_RejectedMoveAborts ==
    Done =>
      /\ \A t \in Targets :
            (Compact(GLine(t)) \/ Field(PositionLine(t)))
            /\ Rejected(t[1], t[2]) => Aborted
      /\ \A d \in Dirs, m \in Mags :
            (Compact(Letter(d) \o Str(m)) \/ Field(MoveLine(d, m)))
            /\ Rejected(pre.y + DeltaY(d, m), pre.z + DeltaZ(d, m)) => Aborted
      /\ Compact("G100,100") =>
            Aborted /\ Logged("Error: Position out of reach.")

C1_Witness ==
    Done /\ Compact("G100,100") /\ pre # HomeState /\ Aborted

\* C2 as stated: from the home pose G10,10 is a successful move to (10, 10)
\* with the solver's angles for that target.
C2_Original ==
    Done /\ Compact("G10,10") /\ pre = HomeState =>
        /\ currentY = 100 /\ currentZ = 100
        /\ writes # <<>>
        /\ shoulderAngle = calculateIK(100, 100).shoulder
        /\ elbowAngle = calculateIK(100, 100).elbow

\* C2, amended: from the home pose G10,10 is rejected as out of reach (the
\* target is nearer to the shoulder than minReach): no write is issued and the
\* pose stays the home pose; and P / status reports exactly the stored pose.
C2_HomeG10Rejected ==
    /\ Done /\ Compact("G10,10") /\ pre = HomeState =>
          /\ Aborted /\ JointState = HomeState
          /\ Logged("Error: Position out of reach.")
    /\ Done /\ (Compact("P") \/ Field("status")) =>
          /\ Aborted
          /\ \E n \in 1..Len(log) :
                log[n] = Msg("--- Current State ---",
                             <<currentY, currentZ, shoulderAngle, elbowAngle,
                               baseAngle, wristAngle, gripperAngle>>)

C2_Witness == Done /\ Compact("G10,10") /\ pre = HomeState

\* the pairs of lines that the two grammars give for one command
EquivPairs ==
    {<<Letter(d) \o Str(m), MoveLine(d, m)>> : d \in Dirs, m \in Mags}
    \cup {<<GLine(t), PositionLine(t)>> : t \in Targets}
    \cup {<<FamilyLetter(k) \o Str(a), k \o ":" \o Str(a)>> :
             k \in Families, a \in AngleOps}
    \cup {<<"O", "gripper:open">>, <<"X", "gripper:close">>,
          <<"T", "gripper:tight">>, <<"H", "home">>, <<"P", "status">>}

\* C3: for every pair of equivalent lines, the joint state and the sequence of
\* actuator writes that one grammar's line produced are those that the other
\* grammar's line produces from the same starting state.
C3_GrammarEquivalence ==
    Done =>
      \A p \in EquivPairs :
        /\ Compact(p[1]) =>
              /\ JointState = RunState(processBluetoothCommand(pre, p[2]).todo, pre)
              /\ writes = RunWrites(processBluetoothCommand(pre, p[2]).todo, pre)
        /\ Field(p[2]) =>
              /\ JointState = RunState(processSerialCommand(pre, p[1]).todo, pre)
              /\ writes = RunWrites(processSerialCommand(pre, p[1]).todo, pre)

C3_Witness ==
    Done /\ Compact("B5") /\ pre # HomeState /\ JointState # pre

\* C4: after a home command the joint state is the home pose, whatever the
\* state before (so a second home changes nothing), and the process starts in
\* the home pose.
C4_HomeAbsolute ==
    /\ Done /\ (Compact("H") \/ Field("home") \/ chan = "setup") =>
          JointState = HomeState
    /\ ncmd = 0 /\ chan = "setup" /\ pc = "run" => JointState = HomeState

C4_Witness == Done /\ Field("home") /\ pre # HomeState

MinMax(a, lo, hi) == IF a < lo THEN lo ELSE IF a > hi THEN hi ELSE a

\* C5: after gripper:<a> or C<a> the stored gripper angle is min(max(a, 0), 90)
\* and the last actuator write of the command is that angle.
C5_GripperClamp ==
    Done =>
      \A a \in AngleOps :
        Compact("C" \o Str(a)) \/ Field("gripper:" \o Str(a)) =>
            /\ gripperAngle = MinMax(a, 0, 90 * Scale)
            /\ writes # <<>>
            /\ writes[Len(writes)] = <<"gripper", MinMax(a, 0, 90 * Scale) \div Scale>>

C5_Witness == Done /\ Field("gripper:150") /\ gripperAngle = 900

\* the reply sent with robot.println reports a failure
ErrorAck == Len(ack) = 1 /\ SubSeq(ack[1], 1, 6) = "ERROR:"

\* the Serial output reports a failure
ErrorLogged ==
    \E n \in 1..Len(log) :
        SubSeq(log[n].msg, 1, 6) = "Error:" \/ log[n].msg = "Unknown command"

\* C6 as stated: a line with a non-numeric operand, or an unknown gripper
\* sub-command, yields an error, issues no actuator write and leaves the joint
\* state unchanged.
C6_NonNumericRejected ==
    Done =>
      /\ \A l \in {"Rxyz", "Wxyz", "Cxyz", "Fabc", "Dabc", "Ga,b"} :
            Compact(l) => Aborted /\ ErrorLogged
      /\ \A l \in {"base:abc", "wrist:abc", "move:forward:abc", "move:up:abc",
                   "position:a,b", "gripper:foo"} :
            Field(l) => Aborted /\ ErrorAck

\* C7 as stated: every line handled by the colon grammar is answered by exactly
\* one reply, and a move or position command that the solver rejects is
\* answered with an error, not with OK.
C7_RejectedAckIsError ==
    Done =>
      /\ (\E l \in FieldLines \cup NonNumericField \cup MalformedField : Field(l))
            => Len(ack) = 1
      /\ \A t \in Targets :
            Field(PositionLine(t)) /\ Rejected(t[1], t[2]) => ErrorAck
      /\ \A d \in Dirs, m \in Mags :
            Field(MoveLine(d, m))
            /\ Rejected(pre.y + DeltaY(d, m), pre.z + DeltaZ(d, m)) => ErrorAck

\* C8: an unknown leading letter, an unknown family token, an unknown
\* direction, a line of the colon grammar without a colon, and a missing comma
\* in G or position: each give an error outcome, no actuator write and an
\* unchanged joint state.
C8_MalformedRejected ==
    Done =>
      /\ \A l \in {"Z5", "Q"} :
            Compact(l) => Aborted /\ Logged("Unknown command")
      /\ \A l \in {"G10", "G"} :
            Compact(l) => Aborted /\ Logged("Error: Use format G<y>,<z>")
      /\ Field("fly:5") => Aborted /\ ack = <<"ERROR:UNKNOWN_COMMAND">>
      /\ \A l \in {"move:sideways:5", "move:"} :
            Field(l) => Aborted /\ ack = <<"ERROR:UNKNOWN_DIRECTION">>
      /\ \A l \in {"hello", "F10"} :
            Field(l) => Aborted /\ ack = <<"ERROR:INVALID_FORMAT">>
      /\ \A l \in {"position:10", "position:", "position:,5"} :
            Field(l) => Aborted /\ ack = <<"ERROR:INVALID_POSITION">>

C8_Witness == Done /\ Field("position:10") /\ pre # HomeState

\* the valid logical range of a joint, tenths of a degree
RangeMax(k) ==
    CASE k = "base" -> (SERVO_MAX - BASE_OFFSET) * Scale
      [] k = "wrist" -> SERVO_MAX * Scale
      [] k = "gripper" -> GRIPPER_OPEN * Scale

\* what a handler with result r, run as a whole from the state `pre`, prints
\* and replies
WholeLog(r) ==
    (IF chan = "bluetooth" THEN <<Msg("BT Received: ", <<>>)>> ELSE <<>>)
    \o r.log \o RunLog(r.todo, pre)
WholeAck(r) == IF r.ack = "" THEN <<>> ELSE <<r.ack>>

\* the outcome of the running command differs from that of result r
Distinguishable(r) == log # WholeLog(r) \/ ack # WholeAck(r)

Remaining == Len(todo) * (moveSteps + 1) - i

\* C10: while a handler runs no line is read or dispatched on either channel
\* and one call at a time is stepped; every step of the handler brings its
\* end nearer, it can always take its next step, and when it has returned
\* control goes back to loop().
C10_RunToCompletion ==
    /\ [][pc = "run" =>
            /\ pc' \in {"run", "done"}
            /\ cmd' = cmd /\ chan' = chan /\ ncmd' = ncmd /\ pre' = pre
            /\ Remaining' < Remaining
            /\ \/ i' = i + 1 /\ todo' = todo
               \/ i = moveSteps /\ i' = 0 /\ todo' = Tail(todo)
            /\ \A n \in Len(writes) + 1 .. Len(writes') :
                   \E m \in 1..Len(Head(todo).joints) :
                       writes'[n][1] = Head(todo).joints[m]]_vars
    /\ [](pc = "run" => todo # <<>> /\ i \in 0..moveSteps /\ ENABLED (Step \/ Commit))
    /\ [](pc # "run" => todo = <<>> /\ i = 0)
    /\ [](pc = "done" => ENABLED Return)

C10_Witness ==
    pc = "run" /\ chan = "bluetooth" /\ cmd = "home" /\ Len(todo) = 2 /\ i = 15
    /\ writes # <<>>

\* forward kinematics, the inverse of the geometry of calculateIK: the elbow
\* point lies L1 along the shoulder angle from height L0, the forearm L2 leaves
\* it at interior angle 180 - elbow, that is in direction shoulder - elbow
ForwardY(shoulder, elbow) ==
    RDiv(L1 * CosD(shoulder) + L2 * CosD(abs(shoulder - elbow)), TrigScale)
ForwardZ(shoulder, elbow) ==
    L0 + RDiv(L1 * SinD(shoulder) + L2 * SinD(shoulder - elbow), TrigScale)

\* position (y, z) is that of the angles, within the margin epsilon = 0.5 cm
Consistent(y, z, shoulder, elbow) ==
    /\ abs(ForwardY(shoulder, elbow) - y) <= ReachMargin
    /\ abs(ForwardZ(shoulder, elbow) - z) <= ReachMargin

\* the arm part of the joint state changes in this step
ArmChanges ==
    \/ currentY' # currentY \/ currentZ' # currentZ
    \/ shoulderAngle' # shoulderAngle \/ elbowAngle' # elbowAngle

SolveDist2 == sy * sy + (sz - L0) * (sz - L0)
Solved == sres # NoResult
OutOfReach == ~sres.ok /\ sres.err = "out of reach"

InWorkspace ==
    /\ Y_MIN <= sy /\ sy <= Y_MAX
    /\ Z_MIN <= sz /\ sz <= Z_MAX

\* C13: for every point of the workspace that the solver accepts, the returned
\* shoulder and elbow angles lie in [0, 180] degrees and the forward kinematics
\* of these angles gives the point back within epsilon = 0.5 cm.
C13_SolverRoundTrip ==
    Solved /\ InWorkspace /\ sres.ok =>
      /\ 0 <= sres.shoulder /\ sres.shoulder <= 180 * Scale
      /\ 0 <= sres.elbow /\ sres.elbow <= 180 * Scale
      /\ Consistent(sy, sz, sres.shoulder, sres.elbow)

C13_Witness ==
    /\ Solved /\ InWorkspace /\ sres.ok
    /\ sz < L0 /\ sres.shoulder < 90 * Scale
    /\ Consistent(sy, sz, sres.shoulder, sres.elbow)

\* the outcome of a position command whose clamped target is (cy, cz): solved
\* and committed without an error, or aborted
ClampedOutcome(cy, cz, ik) ==
    IF ik.ok
    THEN /\ <<currentY, currentZ>> = <<cy, cz>>
         /\ <<shoulderAngle, elbowAngle>> = <<ik.shoulder, ik.elbow>>
         /\ Len(writes) = 2 * moveSteps
         /\ ~ErrorLogged /\ ~ErrorAck
         /\ Logged("Movement complete")
    ELSE Aborted

Commanded ==
    \/ fcmd \in {"-100", "+100", "e-stop"}
    \/ Len(fout) = 2 /\ fout[2].msg = "Throttle -> "

AllAt(us) == esc = <<us, us, us, us>>

\* C15 as stated: every pulse that set_throttle_all passes to an ESC lies in
\* [ESC_MIN_US, ESC_MAX_US], right after boot and after any sequence of
\* commands.
C15_PulseInRange ==
    Commanded =>
        \A n \in 1..4 : ESC_MIN_US <= esc[n] /\ esc[n] <= ESC_MAX_US

\* C16 as stated: e-stop sets ESC_current_pct to 0 and commands the four motors
\* to the pulse ESC_MIN_US, and while no throttle command has been accepted
\* since, the limit commands keep the commanded pulse at ESC_MIN_US.
C16_EmergencyStop ==
    /\ [][fcmd' = "e-stop" => ESC_current_pct' = 0 /\ AllAt(ESC_MIN_US)']_vars
    /\ [][ESC_current_pct = 0 /\ fcmd' \in {"-100", "+100"} =>
            ESC_current_pct' = 0 /\ AllAt(ESC_MIN_US)']_vars

\* C17 as stated: the throttle command with N in 0..100 sets ESC_current_pct
\* to N and commands the pulse ESC_MIN_US + (ESC_MAX_US - ESC_MIN_US) * N / 100,
\* a larger N never gives a smaller pulse, and the limit commands change
\* ESC_MAX_US by 100 us.  The throttle command is taken as the documented line
\* throttle:N and as the line t:N that the parser compares with.
C17_ThrottleCommand ==
    /\ [](\A n \in {0, 25, 53, 100} :
            fcmd = "t:" \o Str(n * Scale) =>
              /\ ESC_current_pct = n
              /\ AllAt(ESC_MIN_US + ((ESC_MAX_US - ESC_MIN_US) * n) \div 100))
    /\ [](fcmd = "throttle:50" => ESC_current_pct = 50)
    /\ [](\A n1, n2 \in {0, 25, 53, 100} :
            n1 < n2 =>
              \A o1 \in ParseCommand("t:" \o Str(n1 * Scale), ESC_MAX_US, 0),
                 o2 \in ParseCommand("t:" \o Str(n2 * Scale), ESC_MAX_US, 0) :
                    o1.pulses[1] <= o2.pulses[1])
    /\ [][fcmd' = "-100" /\ fcmd # "-100" => ESC_MAX_US' = ESC_MAX_US - 100]_vars
    /\ [][fcmd' = "+100" /\ fcmd # "+100" => ESC_MAX_US' = ESC_MAX_US + 100]_vars

\* the joint state apart from what the joints js of a move store: their
\* angles and, for the arm pair, the position
Others(st, js) ==
    [f \in {"shoulder", "elbow", "base", "wrist", "gripper", "y", "z"}
           \ ((IF Len(js) = 2 THEN {"y", "z"} ELSE {}) \cup {js[n] : n \in 1..Len(js)})
       |-> st[f]]

\* C18: while a move issues its interpolation writes the joint state keeps its
\* values; it changes only after the last (steps-th) write of the move, in one
\* step that issues no write, sets the moved joints (and the position, for the
\* arm pair) to the targets of the move and ends the move.
C18_CommitAfterStepping ==
    /\ [][Len(writes') > Len(writes) => JointState' = JointState]_vars
    /\ [][JointState' # JointState =>
            /\ pc = "run" /\ i = moveSteps /\ writes' = writes
            /\ Len(writes) >= moveSteps * Len(Head(todo).joints)
            /\ todo' = Tail(todo)
            /\ Others(JointState', Head(todo).joints)
                   = Others(JointState, Head(todo).joints)
            /\ \A n \in 1..Len(Head(todo).joints) :
                   JointState'[Head(todo).joints[n]] = Head(todo).target[n]]_vars
    /\ [](pc = "run" /\ i > 0 =>
            \A n \in 1..Len(start) :
                JointState[Head(todo).joints[n]] = start[n])

C18_Witness ==
    /\ pc = "run" /\ i = moveSteps /\ Field("position:15,20")
    /\ Len(writes) = 2 * moveSteps /\ JointState = pre
    /\ Head(todo).target # <<shoulderAngle, elbowAngle>>

\* the offsets and the number of steps as the interpolation is specified
SpecOffset(j) ==
    CASE j = "shoulder" -> 35 [] j = "elbow" -> -15 [] j = "base" -> 45
      [] j = "wrist" -> 0 [] j = "gripper" -> 0

\* trunc(from + (to - from) * k / 30 + offset), angles in tenths of a degree
SpecWrite(from, to, k, offset) ==
    Trunc(from * 30 + (to - from) * k + offset * Scale * 30, Scale * 30)

Written == {writes[n][1] : n \in 1..Len(writes)}

\* C20: a base command changes only baseAngle and writes only to the base
\* servo; a wrist command changes only wristAngle and a gripper command only
\* gripperAngle, each writing only to its own servo; a position or relative
\* move command changes only shoulderAngle, elbowAngle, currentY and currentZ
\* and writes only to the shoulder and elbow servos; P / status changes nothing
\* and writes nothing.
C20_FrameConditions ==
    Done =>
      /\ \A k \in Families, a \in AngleOps :
            Compact(FamilyLetter(k) \o Str(a)) \/ Field(k \o ":" \o Str(a)) =>
                /\ Others(JointState, <<k>>) = Others(pre, <<k>>)
                /\ Written \subseteq {k}
      /\ \A l \in {"O", "X", "T"} :
            Compact(l) => /\ Others(JointState, <<"gripper">>) = Others(pre, <<"gripper">>)
                          /\ Written \subseteq {"gripper"}
      /\ \A l \in {"gripper:open", "gripper:close", "gripper:tight"} :
            Field(l) => /\ Others(JointState, <<"gripper">>) = Others(pre, <<"gripper">>)
                        /\ Written \subseteq {"gripper"}
      /\ \A t \in Targets :
            Compact(GLine(t)) \/ Field(PositionLine(t)) =>
                /\ Others(JointState, <<"shoulder", "elbow">>)
                       = Others(pre, <<"shoulder", "elbow">>)
                /\ Written \subseteq {"shoulder", "elbow"}
      /\ \A d \in Dirs, m \in Mags :
            Compact(Letter(d) \o Str(m)) \/ Field(MoveLine(d, m)) =>
                /\ Others(JointState, <<"shoulder", "elbow">>)
                       = Others(pre, <<"shoulder", "elbow">>)
                /\ Written \subseteq {"shoulder", "elbow"}
      /\ Compact("P") \/ Field("status") => Aborted

C20_Witness ==
    /\ Done /\ Field("wrist:45") /\ pre # HomeState
    /\ wristAngle = 450 /\ pre.wrist # 450 /\ Written = {"wrist"}

C22_PhysicalRange ==
    \A n \in 1..Len(writes) : 0 <= writes[n][2] /\ writes[n][2] <= 180

\* C23: a relative move of magnitude 0, or an absolute move to the current
\* position, leaves shoulderAngle, elbowAngle, currentY and currentZ as they
\* were, from every reachable state.
C23_ZeroMoveNoOp ==
    Done =>
      /\ \A d \in Dirs :
            Compact(Letter(d) \o "0") \/ Field(MoveLine(d, 0)) =>
                /\ shoulderAngle = pre.shoulder /\ elbowAngle = pre.elbow
                /\ currentY = pre.y /\ currentZ = pre.z
      /\ \A t \in Targets :
            /\ Compact(GLine(t)) \/ Field(PositionLine(t))
            /\ pre.y = t[1] /\ pre.z = t[2]
            => /\ shoulderAngle = pre.shoulder /\ elbowAngle = pre.elbow
               /\ currentY = pre.y /\ currentZ = pre.z

\* C24: in every reachable state of the flight controller, the boot state
\* included, ESC_MIN_ALLOWED <= ESC_MIN_US <= ESC_MAX_US <= ESC_MAX_ALLOWED; the
\* limit_decrease command never leaves ESC_MAX_US larger than it was and the
\* limit_increase command never leaves it smaller.
C24_LimitInvariant ==
    /\ [](/\ 1000 <= ESC_MIN_US /\ ESC_MIN_US <= ESC_MAX_US
          /\ ESC_MAX_US <= 2000)
    /\ [][fcmd' = "-100" => ESC_MAX_US' <= ESC_MAX_US]_vars
    /\ [][fcmd' = "+100" => ESC_MAX_US' >= ESC_MAX_US]_vars

\* a plain integer: one or more decimal digits and nothing else
PlainInteger(s) == Len(s) > 0 /\ \A k \in 1..Len(s) : IsDigit(Ch(s, k))

\* the line is one of the accepted commands: a limit command, e-stop, or the
\* throttle command with a plain integer in 0..100
Accepted(line) ==
    \/ line \in {"-100", "+100", "e-stop"}
    \/ /\ Len(line) > 2 /\ SubSeq(line, 1, 2) = "t:"
       /\ PlainInteger(SubSeq(line, 3, Len(line)))
       /\ DigitsValue(line, 3, Len(line) + 1) <= 100

\* C25: a line that is none of the accepted commands reports
\* "ERR: unknown command", issues no ESC write and leaves ESC_current_pct and
\* ESC_MAX_US unchanged; ESC_current_pct is within 0..100 in every reachable
\* state.
C25_RejectionEffectFree ==
    /\ [][~Accepted(fcmd') =>
            /\ fout'[2].msg = "ERR: unknown command"
            /\ esc' = esc
            /\ ESC_current_pct' = ESC_current_pct
            /\ ESC_MAX_US' = ESC_MAX_US]_vars
    /\ [](0 <= ESC_current_pct /\ ESC_current_pct <= 100)

=============================================================================
